---- MODULE Spec2Model ----
(***************************************************************************)
(* Production-readiness interview of backend/app.py: the process-wide      *)
(* session (services_list, service_progress, current_service_index,        *)
(* conversation_phase) and the HTTP handlers that read and write it.       *)
(*                                                                         *)
(* Every handler is `async def`, but each LLM call inside it is the        *)
(* synchronous openai client, so an awaited helper never suspends and a    *)
(* request runs to completion on the event loop: one action per request.   *)
(* The LLM is the environment: each call's outcome is chosen with \E.      *)
(* The global current_service is assigned by every POST and read by no     *)
(* code (the helpers shadow it with a local), so it carries no state here. *)
(* SpecTurns does not assume that: it keeps the requests in flight on the  *)
(* event loop and runs each handler up to the next await that suspends.    *)
(***************************************************************************)
EXTENDS Integers, Sequences, FiniteSets, TLC

VARIABLES production_mode, services_list, service_progress,
          current_service_index, conversation_phase, last, inflight

vars == <<production_mode, services_list, service_progress,
          current_service_index, conversation_phase, last, inflight>>

session == <<services_list, service_progress, current_service_index,
             conversation_phase>>

(* ---------------------------- bounds ----------------------------------- *)

\* longest checklist the LLM returns in the model (the prompt asks for 4-5)
MaxItems == 2

\* longest detected_services list the intent classifier returns
MaxDetected == 2

\* service names a request or the classifier can carry; two differ by case only
Names == {"AKS", "aks"}

\* content of the latest user message
Texts == {"we did that"}

(* --------------------------- LLM outcomes ------------------------------ *)

\* chat.completions.parse raises / returns message.parsed == None
LLMFailures == {"exception", "no_parsed"}

Answers == {"implemented", "needs_attention", "unclear"}

\* outcome of one checklist-generation call: a failure, or a parsed
\* ChecklistGeneration with n ChecklistItemData
GenOutcomes ==
  [result : LLMFailures, n : {0}] \cup [result : {"parsed"}, n : 0..MaxItems]

SeqsUpTo(S, n) == UNION {[1..k -> S] : k \in 0..n}

(* ------------------------------ text ----------------------------------- *)

GeneratedImportance == "Required For Production"

FallbackImportance == "Review based on Azure best practices and core knowledge"

\* str.lower() on the importance texts that occur
Lower(s) ==
  CASE s = GeneratedImportance -> "required for production"
    [] s = FallbackImportance  -> "review based on azure best practices and core knowledge"
    [] OTHER -> s

AffirmRecommendation == "Great! This is properly implemented."

ClarifyRecommendation == "Please clarify the implementation status of this item."

ConsiderRecommendation(importance) ==
  "Consider implementing this - " \o Lower(importance)

(* ---------------------------- data model ------------------------------- *)

ChecklistItem(item, importance, description) ==
  [item |-> item, status |-> "pending", user_response |-> "",
   recommendation |-> "", importance |-> importance,
   description |-> description]

ServiceProgress(service_name, checklist_items) ==
  [service_name |-> service_name, checklist_items |-> checklist_items,
   current_item_index |-> 0, is_complete |-> FALSE]

\* the k-th item of a parsed ChecklistGeneration for `service`
GeneratedItem(service, k) ==
  ChecklistItem(service \o " item " \o ToString(k), GeneratedImportance,
                "How to verify item " \o ToString(k))

FallbackItem(service) ==
  ChecklistItem("Production readiness assessment for " \o service,
                FallbackImportance,
                "Comprehensive review of this service for production deployment")

\* get_service_checklist_items: the parsed items converted one by one; the
\* fallback list when the call raised or message.parsed was None (the
\* attribute access on None raises inside the try)
get_service_checklist_items(service, outcome) ==
  IF outcome.result \in LLMFailures
    THEN <<FallbackItem(service)>>
    ELSE [k \in 1..outcome.n |-> GeneratedItem(service, k)]

\* initialize_services_progress that prepends instead of appending
initialize_services_progress_reversed(services, outcomes) ==
  [i \in 1..Len(services) |->
     ServiceProgress(services[Len(services) + 1 - i],
                     get_service_checklist_items(
                       services[Len(services) + 1 - i],
                       outcomes[Len(services) + 1 - i]))]

\* initialize_services_progress: one ServiceProgress per service, in order
initialize_services_progress(services, outcomes) ==
  [i \in 1..Len(services) |->
     ServiceProgress(services[i],
                     get_service_checklist_items(services[i], outcomes[i]))]

(* ------------------ position in the review (1-based) ------------------- *)

\* get_current_service_progress() is not None
HasCurrentService(progress, index) == index < Len(progress)

\* get_current_checklist_item() is not None
HasCurrentItem(progress, index) ==
  /\ HasCurrentService(progress, index)
  /\ progress[index + 1].current_item_index
       < Len(progress[index + 1].checklist_items)

(* ----------------------------- requests -------------------------------- *)

\* the request handled last and its outcome: HTTP status, which reply text
\* was built, what the classifier call of the turn produced, the
\* detected_services of an add_services classification, the number of
\* classifier calls the request made, the services it generated a checklist
\* for (in call order), and what the reply text presents: the service its
\* question names, the item titles it lists and the item it asks about
\* `others` is the number of other requests that were in flight when the
\* handler of this one finished
NoOp == [op |-> "none", status |-> 0, kind |-> "none", llm |-> "none",
         detected |-> <<>>, classify_calls |-> 0, generated |-> <<>>,
         about |-> "", listed |-> <<>>, asked |-> "", others |-> 0]

Reply(op, status, kind, llm) ==
  [op |-> op, status |-> status, kind |-> kind, llm |-> llm,
   detected |-> <<>>, classify_calls |-> 0, generated |-> <<>>,
   about |-> "", listed |-> <<>>, asked |-> "", others |-> 0]

\* the reply of a turn that called a classifier once
Classifying(reply) == [reply EXCEPT !.classify_calls = 1]

\* the item titles of a checklist, as the reply's numbered list shows them
Titles(checklist_items) ==
  [k \in 1..Len(checklist_items) |-> checklist_items[k].item]

\* a reply that names `service`, lists `checklist_items` and asks about the
\* first of them
Presenting(reply, service, checklist_items) ==
  [reply EXCEPT !.about = service, !.listed = Titles(checklist_items),
                !.asked = checklist_items[1].item]

Init ==
  /\ production_mode = FALSE
  /\ services_list = <<>>
  /\ service_progress = <<>>
  /\ current_service_index = 0
  /\ conversation_phase = "collecting_services"
  /\ last = NoOp
  /\ inflight = <<>>

\* StartSession that also clears the progress of the previous interview
StartSessionClears ==
  \E service \in Names :
    /\ production_mode' = TRUE
    /\ services_list' = <<service>>
    /\ conversation_phase' = "collecting_services"
    /\ service_progress' = <<>>
    /\ last' = Reply("start", 200, "greeting", "none")
    /\ UNCHANGED current_service_index
    /\ UNCHANGED inflight

\* POST /api/production-readiness with messages == []
StartSession ==
  \E service \in Names :
    /\ production_mode' = TRUE
    /\ services_list' = <<service>>
    /\ conversation_phase' = "collecting_services"
    /\ last' = Reply("start", 200, "greeting", "none")
    /\ UNCHANGED <<service_progress, current_service_index>>
    /\ UNCHANGED inflight

\* the request carries messages but none with role "user": the HTTPException
\* (400) is raised inside the try and re-raised as 500 by `except Exception`
NoUserMessage ==
    /\ production_mode' = TRUE
    /\ last' = Reply("turn", 500, "no_user_message", "none")
    /\ UNCHANGED session
    /\ UNCHANGED inflight

Range(list) == {list[i] : i \in 1..Len(list)}

\* AddDetected without the membership test
RECURSIVE AddDetectedUnchecked(_, _)
AddDetectedUnchecked(list, detected) ==
  IF detected = <<>> THEN list
  ELSE AddDetectedUnchecked(Append(list, Head(detected)), Tail(detected))

\* the loop of the add_services branch: append each detected name that is
\* not yet in the list
RECURSIVE AddDetected(_, _)
AddDetected(list, detected) ==
  IF detected = <<>> THEN list
  ELSE AddDetected(IF Head(detected) \in Range(list) THEN list
                   ELSE Append(list, Head(detected)),
                   Tail(detected))

\* collecting_services turn, analyze_user_intent returned None (parsed is
\* None): reading .intent raises, the handler answers 500
CollectingIntentMissing ==
  \E text \in Texts :
    /\ conversation_phase = "collecting_services"
    /\ production_mode' = TRUE
    /\ last' = Classifying(Reply("turn", 500, "error", "no_parsed"))
    /\ UNCHANGED session
    /\ UNCHANGED inflight

\* collecting_services turn classified add_services
CollectingAddServices ==
  \E text \in Texts, detected \in SeqsUpTo(Names, MaxDetected) :
    /\ conversation_phase = "collecting_services"
    /\ production_mode' = TRUE
    /\ services_list' = AddDetected(services_list, detected)
    /\ last' = [Classifying(Reply("turn", 200, "added", "add_services"))
                 EXCEPT !.detected = detected]
    /\ UNCHANGED <<service_progress, current_service_index,
                   conversation_phase>>
    /\ UNCHANGED inflight

\* the outcome of a continue_to_review turn after the progress is stored:
\* services[0] raises on an empty list, checklist_items[0] on an empty
\* second checklist, else the reply presents that second checklist
ContinueReply(services, shown) ==
  IF services = <<>>
    THEN Classifying(Reply("turn", 500, "error", "continue_to_review"))
  ELSE IF shown = <<>>
    THEN [Classifying(Reply("turn", 500, "error", "continue_to_review"))
            EXCEPT !.generated = Append(services, services[1])]
  ELSE [Presenting(Classifying(Reply("turn", 200, "first_question",
                                     "continue_to_review")),
                   services[1], shown)
          EXCEPT !.generated = Append(services, services[1])]

\* collecting_services turn classified continue_to_review: the progress is
\* built, the phase and index are set, and only then the first service is
\* read and a second checklist is generated for it, which the reply presents
CollectingContinue ==
  \E text \in Texts,
     progress \in {initialize_services_progress(services_list, outcomes) :
                     outcomes \in [1..Len(services_list) -> GenOutcomes]},
     shown \in {get_service_checklist_items(
                  IF services_list = <<>> THEN "" ELSE services_list[1],
                  outcome) : outcome \in GenOutcomes} :
    /\ conversation_phase = "collecting_services"
    /\ production_mode' = TRUE
    /\ service_progress' = progress
    /\ conversation_phase' = "reviewing_services"
    /\ current_service_index' = 0
    /\ last' = ContinueReply(services_list, shown)
    /\ UNCHANGED services_list
    /\ UNCHANGED inflight

\* CollectingUnclear that starts the review instead of asking again
CollectingUnclearProceeds ==
  \E text \in Texts, llm \in {"unclear", "exception"} :
    /\ conversation_phase = "collecting_services"
    /\ production_mode' = TRUE
    /\ conversation_phase' = "reviewing_services"
    /\ last' = Classifying(Reply("turn", 200, "clarify", llm))
    /\ UNCHANGED <<services_list, service_progress, current_service_index>>
    /\ UNCHANGED inflight

\* collecting_services turn that is neither: the classifier said unclear, or
\* its call raised and analyze_user_intent returned its unclear fallback
CollectingUnclear ==
  \E text \in Texts, llm \in {"unclear", "exception"} :
    /\ conversation_phase = "collecting_services"
    /\ production_mode' = TRUE
    /\ last' = Classifying(Reply("turn", 200, "clarify", llm))
    /\ UNCHANGED session
    /\ UNCHANGED inflight

\* the current item with the fields one turn writes
SetItem(progress, index, item) ==
  [progress EXCEPT ![index + 1].checklist_items[
                      progress[index + 1].current_item_index + 1] = item]

CurrentItem(progress, index) ==
  progress[index + 1].checklist_items[
    progress[index + 1].current_item_index + 1]

\* Classified that leaves an unclear reply's item pending
ClassifiedUnclearPending(item, text, implemented) ==
  IF implemented = "implemented"
    THEN [item EXCEPT !.user_response = text, !.status = "implemented",
                      !.recommendation = AffirmRecommendation]
  ELSE IF implemented = "needs_attention"
    THEN [item EXCEPT !.user_response = text, !.status = "needs_attention",
                      !.recommendation = ConsiderRecommendation(item.importance)]
  ELSE [item EXCEPT !.user_response = text,
                    !.recommendation = ClarifyRecommendation]

\* Classified that marks an unclear reply's item not_applicable
ClassifiedUnclearNotApplicable(item, text, implemented) ==
  IF implemented = "implemented"
    THEN [item EXCEPT !.user_response = text, !.status = "implemented",
                      !.recommendation = AffirmRecommendation]
  ELSE IF implemented = "needs_attention"
    THEN [item EXCEPT !.user_response = text, !.status = "needs_attention",
                      !.recommendation = ConsiderRecommendation(item.importance)]
  ELSE [item EXCEPT !.user_response = text, !.status = "not_applicable",
                    !.recommendation = ClarifyRecommendation]

\* the status and recommendation the handler derives from the classification
Classified(item, text, implemented) ==
  IF implemented = "implemented"
    THEN [item EXCEPT !.user_response = text, !.status = "implemented",
                      !.recommendation = AffirmRecommendation]
  ELSE IF implemented = "needs_attention"
    THEN [item EXCEPT !.user_response = text, !.status = "needs_attention",
                      !.recommendation = ConsiderRecommendation(item.importance)]
  ELSE [item EXCEPT !.user_response = text, !.status = "needs_attention",
                    !.recommendation = ClarifyRecommendation]

\* advance_to_next_item that goes back to collecting_services when the last
\* service is done
advance_restarts(progress, index, phase) ==
  IF ~HasCurrentService(progress, index) THEN <<progress, index, phase>>
  ELSE
    LET moved == [progress EXCEPT ![index + 1].current_item_index = @ + 1]
    IN IF moved[index + 1].current_item_index
            >= Len(moved[index + 1].checklist_items)
         THEN <<[moved EXCEPT ![index + 1].is_complete = TRUE],
                index + 1,
                IF index + 1 >= Len(progress) THEN "collecting_services"
                ELSE phase>>
         ELSE <<moved, index, phase>>

\* advance_to_next_item that wraps the service index when the last service
\* is done
advance_wraps(progress, index, phase) ==
  IF ~HasCurrentService(progress, index) THEN <<progress, index, phase>>
  ELSE
    LET moved == [progress EXCEPT ![index + 1].current_item_index = @ + 1]
    IN IF moved[index + 1].current_item_index
            >= Len(moved[index + 1].checklist_items)
         THEN <<[moved EXCEPT ![index + 1].is_complete = TRUE],
                IF index + 1 >= Len(progress) THEN 0 ELSE index + 1,
                IF index + 1 >= Len(progress) THEN "complete" ELSE phase>>
         ELSE <<moved, index, phase>>

\* advance_to_next_item that compares the index with > instead of >=
advance_late(progress, index, phase) ==
  IF ~HasCurrentService(progress, index) THEN <<progress, index, phase>>
  ELSE
    LET moved == [progress EXCEPT ![index + 1].current_item_index = @ + 1]
    IN IF moved[index + 1].current_item_index
            > Len(moved[index + 1].checklist_items)
         THEN <<[moved EXCEPT ![index + 1].is_complete = TRUE],
                index + 1,
                IF index + 1 >= Len(progress) THEN "complete" ELSE phase>>
         ELSE <<moved, index, phase>>

\* advance_to_next_item on (service_progress, current_service_index,
\* conversation_phase); the result is the triple after the call
advance_to_next_item(progress, index, phase) ==
  IF ~HasCurrentService(progress, index) THEN <<progress, index, phase>>
  ELSE
    LET moved == [progress EXCEPT ![index + 1].current_item_index = @ + 1]
    IN IF moved[index + 1].current_item_index
            >= Len(moved[index + 1].checklist_items)
         THEN <<[moved EXCEPT ![index + 1].is_complete = TRUE],
                index + 1,
                IF index + 1 >= Len(progress) THEN "complete" ELSE phase>>
         ELSE <<moved, index, phase>>

\* what the handler answers after the advance
ReviewReplyKind(before, beforeIndex, progress, index, phase) ==
  IF phase = "complete" THEN "final_summary"
  ELSE IF /\ HasCurrentService(progress, index)
          /\ progress[index + 1].service_name
               # before[beforeIndex + 1].service_name
    THEN IF progress[index + 1].checklist_items = <<>>
           THEN "error" ELSE "next_service"
  ELSE IF HasCurrentItem(progress, index) THEN "next_item"
  ELSE "went_wrong"

\* what the reply to an answered item presents: the next service with its
\* item list and first question, or the next item of the same service
ReviewReply(reply, before, beforeIndex, progress, index) ==
  IF reply.kind = "next_service"
    THEN Presenting(reply, progress[index + 1].service_name,
                    progress[index + 1].checklist_items)
  ELSE IF reply.kind = "next_item"
    THEN [reply EXCEPT !.about = before[beforeIndex + 1].service_name,
                       !.asked = CurrentItem(progress, index).item]
  ELSE reply

\* ReviewingLostTrack that starts the interview over
ReviewingLostTrackResets ==
  \E text \in Texts :
    /\ conversation_phase = "reviewing_services"
    /\ ~HasCurrentItem(service_progress, current_service_index)
    /\ production_mode' = TRUE
    /\ conversation_phase' = "collecting_services"
    /\ last' = Reply("turn", 200, "lost_track", "none")
    /\ UNCHANGED <<services_list, service_progress, current_service_index>>
    /\ UNCHANGED inflight

\* reviewing_services turn with no current item
ReviewingLostTrack ==
  \E text \in Texts :
    /\ conversation_phase = "reviewing_services"
    /\ ~HasCurrentItem(service_progress, current_service_index)
    /\ production_mode' = TRUE
    /\ last' = Reply("turn", 200, "lost_track", "none")
    /\ UNCHANGED session
    /\ UNCHANGED inflight

\* reviewing_services turn whose classification fails: user_response is
\* already written when analyze_user_response raises (its fallback builds a
\* UserResponseAnalysis without the required field `implemented`) or returns
\* None (reading .implemented raises); the handler answers 500
ReviewingClassifierFails ==
  \E text \in Texts, llm \in LLMFailures :
    /\ conversation_phase = "reviewing_services"
    /\ HasCurrentItem(service_progress, current_service_index)
    /\ production_mode' = TRUE
    /\ service_progress' =
         SetItem(service_progress, current_service_index,
                 [CurrentItem(service_progress, current_service_index)
                    EXCEPT !.user_response = text])
    /\ last' = Classifying(Reply("turn", 500, "error", llm))
    /\ UNCHANGED <<services_list, current_service_index, conversation_phase>>
    /\ UNCHANGED inflight

\* reviewing_services turn whose reply is classified
ReviewingAnswer ==
  \E text \in Texts, implemented \in Answers :
    /\ conversation_phase = "reviewing_services"
    /\ HasCurrentItem(service_progress, current_service_index)
    /\ production_mode' = TRUE
    /\ LET answered ==
             SetItem(service_progress, current_service_index,
                     Classified(CurrentItem(service_progress,
                                            current_service_index),
                                text, implemented))
           after == advance_to_next_item(answered, current_service_index,
                                         conversation_phase)
           kind == ReviewReplyKind(service_progress, current_service_index,
                                   after[1], after[2], after[3])
       IN /\ service_progress' = after[1]
          /\ current_service_index' = after[2]
          /\ conversation_phase' = after[3]
          /\ last' = ReviewReply(
                        Classifying(Reply("turn",
                                          IF kind = "error" THEN 500 ELSE 200,
                                          kind, implemented)),
                        service_progress, current_service_index,
                        after[1], after[2])
    /\ UNCHANGED services_list
    /\ UNCHANGED inflight

\* a turn in phase complete: the static message
CompleteTurn ==
  \E text \in Texts :
    /\ conversation_phase = "complete"
    /\ production_mode' = TRUE
    /\ last' = Reply("turn", 200, "static", "none")
    /\ UNCHANGED session
    /\ UNCHANGED inflight

RECURSIVE SumLen(_)
SumLen(progress) ==
  IF progress = <<>> THEN 0
  ELSE Len(Head(progress).checklist_items) + SumLen(Tail(progress))

\* total_items of generate_final_summary
total_items == SumLen(service_progress)

RECURSIVE CountStatus(_, _)
CountStatus(checklist_items, status) ==
  IF checklist_items = <<>> THEN 0
  ELSE (IF Head(checklist_items).status = status THEN 1 ELSE 0)
         + CountStatus(Tail(checklist_items), status)

RECURSIVE SumStatus(_, _)
SumStatus(progress, status) ==
  IF progress = <<>> THEN 0
  ELSE CountStatus(Head(progress).checklist_items, status)
         + SumStatus(Tail(progress), status)

\* implemented_items and attention_items of generate_final_summary
implemented_items == SumStatus(service_progress, "implemented")

attention_items == SumStatus(service_progress, "needs_attention")

\* GET /api/production-readiness/summary
GetProductionSummary ==
  /\ last' =
       IF service_progress = <<>>
         THEN Reply("summary", 200, "no_session", "none")
       ELSE IF total_items = 0
         THEN Reply("summary", 500, "error", "none")
       ELSE Reply("summary", 200, "report", "none")
  /\ UNCHANGED <<production_mode, session>>
  /\ UNCHANGED inflight

Next ==
  \/ StartSession
  \/ NoUserMessage
  \/ CollectingIntentMissing
  \/ CollectingAddServices
  \/ CollectingContinue
  \/ CollectingUnclear
  \/ ReviewingLostTrack
  \/ ReviewingClassifierFails
  \/ ReviewingAnswer
  \/ CompleteTurn
  \/ GetProductionSummary

(* ------------------- requests in flight on the event loop -------------- *)

\* most requests in flight at once
MaxInFlight == 2

\* an await that hands control back to the event loop, as it would with the
\* asynchronous client
AwaitSuspendsAlways == TRUE

\* whether `await analyze_user_response(...)` hands control back to the event
\* loop: the coroutine calls the synchronous client
\* (openai_client.beta.chat.completions.parse, not awaited) and awaits
\* nothing, so it runs to its return inside the caller's step
AwaitSuspends == FALSE

\* a handler whose request was accepted and has not run yet
Accepted == [pc |-> "accepted", service |-> 0, item |-> 0]

\* a handler suspended at the await, holding current_service_obj and
\* current_item (their 1-based positions in service_progress)
Awaiting(service, item) ==
  [pc |-> "awaiting", service |-> service, item |-> item]

Without(handlers, i) ==
  [k \in 1..(Len(handlers) - 1) |->
     IF k < i THEN handlers[k] ELSE handlers[k + 1]]

\* the session right after a continue_to_review turn that was answered, with
\* no request in flight
InitTurns ==
  \E services \in SeqsUpTo(Names, Cardinality(Names)) :
    \E outcomes \in [1..Len(services) -> GenOutcomes],
       shownOutcome \in GenOutcomes :
      /\ services # <<>>
      /\ \A i, j \in 1..Len(services) : services[i] = services[j] => i = j
      /\ get_service_checklist_items(services[1], shownOutcome) # <<>>
      /\ production_mode = TRUE
      /\ services_list = services
      /\ service_progress = initialize_services_progress(services, outcomes)
      /\ current_service_index = 0
      /\ conversation_phase = "reviewing_services"
      /\ last = ContinueReply(services,
                              get_service_checklist_items(services[1],
                                                          shownOutcome))
      /\ inflight = <<>>

\* a turn request (with a user message) is accepted while others may still
\* be in flight
TurnArrives ==
  /\ Len(inflight) < MaxInFlight
  /\ inflight' = Append(inflight, Accepted)
  /\ UNCHANGED <<production_mode, session, last>>

\* the part of the reviewing_services branch after the await, on the globals
\* as they are when the handler runs it: status and recommendation go to the
\* held item, advance_to_next_item moves the position, the reply is built
ReviewFinish(progress, index, phase, service, item, outcome) ==
  IF outcome \in LLMFailures
    THEN [progress |-> progress, index |-> index, phase |-> phase,
          reply |-> Classifying(Reply("turn", 500, "error", outcome))]
  ELSE
    LET held == progress[service].checklist_items[item]
        answered == [progress EXCEPT ![service].checklist_items[item] =
                       Classified(held, held.user_response, outcome)]
        after == advance_to_next_item(answered, index, phase)
        kind == ReviewReplyKind(answered, service - 1,
                                after[1], after[2], after[3])
    IN [progress |-> after[1], index |-> after[2], phase |-> after[3],
        reply |-> ReviewReply(
                    Classifying(Reply("turn",
                                      IF kind = "error" THEN 500 ELSE 200,
                                      kind, outcome)),
                    answered, service - 1, after[1], after[2])]

\* the handler i is done: its writes and its reply
Returns(i, result) ==
  /\ service_progress' = result.progress
  /\ current_service_index' = result.index
  /\ conversation_phase' = result.phase
  /\ last' = [result.reply EXCEPT !.others = Len(inflight) - 1]
  /\ inflight' = Without(inflight, i)

\* the event loop runs one handler in flight, from where it stands to its
\* next await that suspends or to its return
EventLoopRuns ==
  \E i \in 1..Len(inflight), text \in Texts,
     outcome \in Answers \cup LLMFailures :
    /\ conversation_phase # "collecting_services"
    /\ production_mode' = TRUE
    /\ UNCHANGED services_list
    /\ IF inflight[i].pc = "awaiting"
         THEN Returns(i, ReviewFinish(service_progress, current_service_index,
                                      conversation_phase, inflight[i].service,
                                      inflight[i].item, outcome))
       ELSE IF /\ conversation_phase = "reviewing_services"
               /\ HasCurrentItem(service_progress, current_service_index)
         THEN
           LET written ==
                 SetItem(service_progress, current_service_index,
                         [CurrentItem(service_progress, current_service_index)
                            EXCEPT !.user_response = text])
               service == current_service_index + 1
               item == service_progress[service].current_item_index + 1
           IN IF AwaitSuspends
                THEN /\ service_progress' = written
                     /\ inflight' = [inflight EXCEPT
                                       ![i] = Awaiting(service, item)]
                     /\ UNCHANGED <<current_service_index,
                                    conversation_phase, last>>
                ELSE Returns(i, ReviewFinish(written, current_service_index,
                                             conversation_phase, service,
                                             item, outcome))
       ELSE Returns(i, [progress |-> service_progress,
                        index |-> current_service_index,
                        phase |-> conversation_phase,
                        reply |-> IF conversation_phase = "reviewing_services"
                                    THEN Reply("turn", 200, "lost_track",
                                               "none")
                                    ELSE Reply("turn", 200, "static",
                                               "none")])

NextTurns ==
  \/ TurnArrives
  \/ EventLoopRuns

(* ------------------------------ claims --------------------------------- *)

Rank(phase) ==
  CASE phase = "collecting_services" -> 0
    [] phase = "reviewing_services"  -> 1
    [] phase = "complete"            -> 2

\* C1 as stated: no operation, a start-session request included, moves the
\* phase back to an earlier one.
C1_PhaseNeverMovesBack ==
  [][Rank(conversation_phase') >= Rank(conversation_phase)]_vars

\* C1 amended: user turns and summary requests never move the phase back;
\* the only operation that does is a start-session request, which sets
\* collecting_services.
C1_OnlyStartMovesPhaseBack ==
  [][/\ last'.op # "start"
        => Rank(conversation_phase') >= Rank(conversation_phase)
     /\ last'.op = "start"
        => conversation_phase' = "collecting_services"]_vars

C1_Witness ==
  /\ conversation_phase = "complete"
  /\ last.op = "turn"
  /\ last.kind = "final_summary"

\* C2: a reviewing_services turn on a resolved item whose classifier call
\* raises completes normally: status 200 with an assistant message, the item
\* needs_attention with the clarification recommendation, and the engine
\* advanced exactly as for a reply classified unclear.
C2_ClassifierFailureDegradesToUnclear ==
  [][(/\ conversation_phase = "reviewing_services"
      /\ HasCurrentItem(service_progress, current_service_index)
      /\ last'.op = "turn"
      /\ last'.llm = "exception")
     => \E text \in Texts :
          LET item == Classified(CurrentItem(service_progress,
                                             current_service_index),
                                 text, "unclear")
              after == advance_to_next_item(
                         SetItem(service_progress, current_service_index,
                                 item),
                         current_service_index, conversation_phase)
          IN /\ item.status = "needs_attention"
             /\ item.recommendation = ClarifyRecommendation
             /\ <<service_progress', current_service_index',
                  conversation_phase'>> = after
             /\ last'.status = 200
             /\ last'.kind \in {"final_summary", "next_service",
                                "next_item"}]_vars

\* C3: every ServiceProgress is complete exactly when its index has reached
\* the length of its checklist, in every reachable state.
C3_CompleteIffIndexAtEnd ==
  \A i \in 1..Len(service_progress) :
    service_progress[i].is_complete
      <=> (service_progress[i].current_item_index
             >= Len(service_progress[i].checklist_items))

NoDuplicates(list) ==
  \A i, j \in 1..Len(list) : list[i] = list[j] => i = j

IsPrefix(short, long) ==
  /\ Len(short) <= Len(long)
  /\ \A i \in 1..Len(short) : short[i] = long[i]

FirstIndex(list, name) ==
  CHOOSE i \in 1..Len(list) :
    list[i] = name /\ \A j \in 1..(i - 1) : list[j] # name

\* C4: an add_services turn leaves services_list without duplicates, keeps
\* every earlier name at its position, adds exactly the detected names that
\* were absent, and lists them in the order they first occur.
C4_AddServicesDedupInOrder ==
  [][last'.llm = "add_services"
     => /\ NoDuplicates(services_list')
        /\ IsPrefix(services_list, services_list')
        /\ Range(services_list')
             = Range(services_list) \cup Range(last'.detected)
        /\ \A i, j \in (Len(services_list) + 1)..Len(services_list') :
             i < j => FirstIndex(last'.detected, services_list'[i])
                        < FirstIndex(last'.detected, services_list'[j])]_vars

\* an add_services turn that detected a new name followed by a name the list
\* already had
C4_Witness ==
  /\ last.llm = "add_services"
  /\ Len(last.detected) = 2
  /\ Len(services_list) = 2
  /\ services_list[2] = last.detected[1]
  /\ services_list[1] = last.detected[2]

\* C5: outside collecting_services the service list is non-empty and there
\* is at least one ServiceProgress.
C5_ReviewHasServices ==
  conversation_phase \in {"reviewing_services", "complete"}
    => services_list # <<>> /\ service_progress # <<>>

\* C6: right after a continue_to_review turn there is one fresh
\* ServiceProgress per name of services_list, in the same order, nothing
\* answered, and the review is at the first service.
C6_FreshProgressAfterContinue ==
  last.llm = "continue_to_review"
    => /\ Len(service_progress) = Len(services_list)
       /\ current_service_index = 0
       /\ \A i \in 1..Len(service_progress) :
            /\ service_progress[i].service_name = services_list[i]
            /\ service_progress[i].current_item_index = 0
            /\ service_progress[i].is_complete = FALSE
            /\ \A k \in 1..Len(service_progress[i].checklist_items) :
                 service_progress[i].checklist_items[k].status = "pending"

\* a continue_to_review turn over two services with different checklists
C6_Witness ==
  /\ last.llm = "continue_to_review"
  /\ Len(service_progress) = 2
  /\ Len(service_progress[1].checklist_items) = 2
  /\ Len(service_progress[2].checklist_items) = 1

\* the step kept every ServiceProgress and ChecklistItem: same services, same
\* items, nothing answered became unanswered, no position moved back
Kept(old, new) ==
  /\ Len(new) = Len(old)
  /\ \A i \in 1..Len(old) :
       /\ new[i].service_name = old[i].service_name
       /\ new[i].current_item_index >= old[i].current_item_index
       /\ old[i].is_complete => new[i].is_complete
       /\ Len(new[i].checklist_items) = Len(old[i].checklist_items)
       /\ \A k \in 1..Len(old[i].checklist_items) :
            LET was == old[i].checklist_items[k]
                is  == new[i].checklist_items[k]
            IN /\ is.item = was.item
               /\ is.importance = was.importance
               /\ is.description = was.description
               /\ was.status # "pending" => is.status # "pending"
               /\ was.user_response # "" => is.user_response # ""

\* C7 as stated: once service_progress is populated no operation replaces it
\* or regenerates anything in it.
C7_PopulatedOnce ==
  [][service_progress # <<>> => Kept(service_progress, service_progress')]_vars

\* C7 amended: service_progress is replaced by a collecting_services turn
\* classified continue_to_review, every time one happens, and by nothing
\* else: start-session requests, all other turns and summary requests keep
\* every ServiceProgress and ChecklistItem.
C7_OnlyContinueRepopulates ==
  [][last'.llm # "continue_to_review"
     => Kept(service_progress, service_progress')]_vars

\* a start-session request that arrived after a finished interview and left
\* its progress in place
C7_Witness ==
  /\ last.op = "start"
  /\ conversation_phase = "collecting_services"
  /\ service_progress # <<>>
  /\ current_service_index = Len(service_progress)

\* C8 as stated: no operation decreases current_service_index.
C8_IndexNeverDecreases ==
  [][current_service_index' >= current_service_index]_vars

\* C8 amended: current_service_index never decreases except that a
\* continue_to_review turn sets it to 0.
C8_IndexDecreasesOnlyOnContinue ==
  [][/\ last'.llm # "continue_to_review"
        => current_service_index' >= current_service_index
     /\ last'.llm = "continue_to_review"
        => current_service_index' = 0]_vars

\* a turn finished the first of two services
C8_Witness ==
  /\ last.op = "turn"
  /\ last.kind = "next_service"
  /\ current_service_index = 1
  /\ Len(service_progress) = 2

\* C9: between two populations of service_progress an item that a turn has
\* written is never written again, and a turn that writes user_response
\* leaves the item with a non-pending status.
C9_ItemWrittenInOneTurn ==
  [][last'.llm # "continue_to_review"
     => \A i \in 1..Len(service_progress) :
          \A k \in 1..Len(service_progress[i].checklist_items) :
            LET was == service_progress[i].checklist_items[k]
                is  == service_progress'[i].checklist_items[k]
            IN /\ was.user_response # "" => is = was
               /\ is.user_response # was.user_response
                    => is.status # "pending"]_vars

\* C10: every checklist get_service_checklist_items returned, as stored by
\* initialize_services_progress, is non-empty.
C10_ChecklistNeverEmpty ==
  \A i \in 1..Len(service_progress) :
    service_progress[i].checklist_items # <<>>

\* C11: a collecting_services turn whose intent is unclear, the classifier
\* having said so or its call having raised, is answered with the
\* clarification prompt and status 200 and leaves the session as it was.
C11_UnclearIntentChangesNothing ==
  [][(/\ conversation_phase = "collecting_services"
      /\ last'.op = "turn"
      /\ last'.llm \in {"unclear", "exception"})
     => /\ last'.status = 200
        /\ last'.kind = "clarify"
        /\ session' = session]_vars

\* the fallback of a failed intent call answered a session that has services
C11_Witness ==
  /\ last.kind = "clarify"
  /\ last.llm = "exception"
  /\ conversation_phase = "collecting_services"
  /\ Len(services_list) = 2

\* C12: the reply to a continue_to_review turn lists the items stored for
\* the first service, asks about the first stored item and names
\* services_list[0].
C12_ReplyPresentsStoredChecklist ==
  last.kind = "first_question"
    => /\ last.about = services_list[1]
       /\ service_progress[1].checklist_items # <<>>
       /\ last.listed = Titles(service_progress[1].checklist_items)
       /\ last.asked = service_progress[1].checklist_items[1].item

Count(list, name) == Cardinality({i \in 1..Len(list) : list[i] = name})

\* C13: a request makes at most one classifier call, and checklists are
\* generated only by the continue_to_review turn, once for each service of
\* services_list.
C13_OneGenerationPerService ==
  /\ last.classify_calls <= 1
  /\ last.llm # "continue_to_review" => last.generated = <<>>
  /\ last.llm = "continue_to_review"
       => \A name \in Range(services_list) : Count(last.generated, name) = 1

\* C14: a summary request is answered with the report whenever a session
\* has been started, in each phase, and with the placeholder only before.
C14_SummaryAtEveryPhase ==
  last.op = "summary"
    => /\ services_list # <<>> => last.kind = "report"
       /\ last.kind = "no_session" => services_list = <<>>

\* C15: a summary request over progress whose checklists hold no item at all
\* is answered with a report, not with an error.
C15_NoItemsIsNotAFault ==
  (last.op = "summary" /\ service_progress # <<>> /\ total_items = 0)
    => last.status = 200

\* C16: a turn whose messages hold no user message is answered 400 and the
\* session is unchanged.
C16_NoUserMessageIs400 ==
  [][last'.kind = "no_user_message"
     => last'.status = 400 /\ session' = session]_vars

\* C17: the reply to a classified answer is the final summary exactly when
\* the phase became complete, else the next service's list and first
\* question exactly when current_service_index changed, else the next item's
\* question; it is never the went-wrong text and never an error.
C17_ReplyFollowsAdvance ==
  [][(/\ conversation_phase = "reviewing_services"
      /\ HasCurrentItem(service_progress, current_service_index)
      /\ last'.op = "turn"
      /\ last'.llm \in Answers)
     => /\ last'.status = 200
        /\ last'.kind \in {"final_summary", "next_service", "next_item"}
        /\ last'.kind = "final_summary" <=> conversation_phase' = "complete"
        /\ last'.kind = "next_service"
             <=> /\ conversation_phase' # "complete"
                 /\ current_service_index' # current_service_index
        /\ last'.kind = "next_service"
             => /\ last'.about
                     = service_progress'[current_service_index' + 1]
                         .service_name
                /\ last'.listed
                     = Titles(service_progress'[current_service_index' + 1]
                                .checklist_items)
        /\ last'.kind = "next_item"
             => last'.asked = CurrentItem(service_progress',
                                          current_service_index').item]_vars

\* C18: a classified answer moves the current service's item index by one and
\* touches no other ServiceProgress; the service index moves by one exactly
\* when the answered item was the last of its service, which is then marked
\* complete; the phase becomes complete exactly when that service was the
\* last one.
C18_AnswerAdvancesByOne ==
  [][(/\ conversation_phase = "reviewing_services"
      /\ HasCurrentItem(service_progress, current_service_index)
      /\ last'.op = "turn"
      /\ last'.llm \in Answers)
     => LET at   == current_service_index + 1
            was  == service_progress[at]
            is   == service_progress'[at]
            lastItem == was.current_item_index + 1 = Len(was.checklist_items)
        IN /\ Len(service_progress') = Len(service_progress)
           /\ is.current_item_index = was.current_item_index + 1
           /\ \A i \in 1..Len(service_progress) :
                i # at => service_progress'[i] = service_progress[i]
           /\ is.is_complete <=> lastItem
           /\ current_service_index'
                = IF lastItem THEN current_service_index + 1
                  ELSE current_service_index
           /\ conversation_phase' = "complete"
                <=> (lastItem /\ at = Len(service_progress))
           /\ conversation_phase' # "complete"
                => conversation_phase' = "reviewing_services"]_vars

\* the last item of the second of two services was answered
C18_Witness ==
  /\ last.op = "turn"
  /\ last.llm \in Answers
  /\ conversation_phase = "complete"
  /\ Len(service_progress) = 2
  /\ service_progress[2].current_item_index = 2
  /\ service_progress[1].current_item_index = 1

\* C19: no reviewing_services state is a dead end: there is a current item,
\* so a turn that is classified moves the review on towards complete.
C19_ReviewNeverStuck ==
  conversation_phase = "reviewing_services"
    => HasCurrentItem(service_progress, current_service_index)

\* C20: a reviewing_services turn that finds no current item answers with
\* the lost-track text, calls no classifier and leaves the session as it was.
C20_LostTrackChangesNothing ==
  [][(/\ conversation_phase = "reviewing_services"
      /\ ~HasCurrentItem(service_progress, current_service_index)
      /\ last'.op = "turn"
      /\ last'.kind # "no_user_message")
     => /\ last'.kind = "lost_track"
        /\ last'.status = 200
        /\ last'.classify_calls = 0
        /\ session' = session]_vars

\* a lost-track reply while the current service has an empty checklist
C20_Witness ==
  /\ last.kind = "lost_track"
  /\ conversation_phase = "reviewing_services"
  /\ current_service_index < Len(service_progress)
  /\ service_progress[current_service_index + 1].checklist_items = <<>>

\* every item the review has passed is answered
PassedItemsAnswered ==
  \A i \in 1..Len(service_progress) :
    \A k \in 1..Len(service_progress[i].checklist_items) :
      k <= service_progress[i].current_item_index
        => service_progress[i].checklist_items[k].status # "pending"

\* C21: with several turn requests in flight no handler is ever parked
\* between resolving the current item and advancing, so every step leaves
\* the passed items answered and never writes an item that is already
\* classified.
C21_TurnsAreAtomic ==
  [][/\ \A h \in 1..Len(inflight') : inflight'[h].pc = "accepted"
     /\ PassedItemsAnswered'
     /\ \A i \in 1..Len(service_progress) :
          \A k \in 1..Len(service_progress[i].checklist_items) :
            service_progress[i].checklist_items[k].status # "pending"
              => service_progress'[i].checklist_items[k]
                   = service_progress[i].checklist_items[k]]_vars

\* an answer was classified and advanced while another request was in flight
C21_Witness ==
  /\ last.op = "turn"
  /\ last.llm \in Answers
  /\ last.others = 1
  /\ Len(inflight) = 1

\* C22: a turn that is answered with an error leaves the session as it was.
C22_ErrorTurnChangesNothing ==
  [][(last'.op = "turn" /\ last'.status = 500) => session' = session]_vars

\* C23: the services before the current one are complete with no pending
\* item, those after it are untouched, and in the current one exactly the
\* items below current_item_index are answered.
C23_ReviewPositionConsistent ==
  \A i \in 1..Len(service_progress) :
    LET progress == service_progress[i]
        items == progress.checklist_items
    IN /\ i < current_service_index + 1
            => /\ progress.is_complete
               /\ \A k \in 1..Len(items) : items[k].status # "pending"
       /\ i > current_service_index + 1
            => /\ progress.current_item_index = 0
               /\ ~progress.is_complete
               /\ \A k \in 1..Len(items) : items[k].status = "pending"
       /\ i = current_service_index + 1
            => \A k \in 1..Len(items) :
                 k <= progress.current_item_index
                   <=> items[k].status # "pending"

\* the first of two services is done and the second is half answered
C23_Witness ==
  /\ Len(service_progress) = 2
  /\ current_service_index = 1
  /\ service_progress[1].current_item_index = 2
  /\ Len(service_progress[2].checklist_items) = 2
  /\ service_progress[2].current_item_index = 1

\* C24: in phase complete the review stands behind the last service, every
\* service is complete, every item is implemented or needs_attention, and
\* the two counts of the summary add up to the number of items.
C24_CompleteMeansAllAnswered ==
  conversation_phase = "complete"
    => /\ current_service_index = Len(service_progress)
       /\ \A i \in 1..Len(service_progress) :
            /\ service_progress[i].is_complete
            /\ \A k \in 1..Len(service_progress[i].checklist_items) :
                 service_progress[i].checklist_items[k].status
                   \in {"implemented", "needs_attention"}
       /\ implemented_items + attention_items = total_items

\* a finished interview over two services with answers of both kinds
C24_Witness ==
  /\ conversation_phase = "complete"
  /\ Len(service_progress) = 2
  /\ implemented_items >= 1
  /\ attention_items >= 2
  /\ total_items = 3

\* C25: after a start-session request the session is fresh: one service, the
\* phase collecting_services, no progress of an earlier interview and the
\* service index at 0.
C25_StartSessionIsFresh ==
  last.op = "start"
    => /\ Len(services_list) = 1
       /\ conversation_phase = "collecting_services"
       /\ service_progress = <<>>
       /\ current_service_index = 0

Spec == Init /\ [][Next]_vars

SpecTurns == InitTurns /\ [][NextTurns]_vars

====
